---- MODULE Spec2Model ----
(***************************************************************************)
(* A model of ToyHomomorphicEncryptionEnhanced (src/cao.py): the blinded   *)
(* fixed-point ciphertext algebra over Z_M, its fixed-width hexadecimal    *)
(* codec, the Newton-Raphson reciprocal and the statistics layer.          *)
(*                                                                         *)
(* Numbers.  Python integers are unbounded; every integer of the model is  *)
(* far below 2^31, so TLC's integers compute them exactly.  Python floats  *)
(* appear in m * scale, in x / y and in round(): the model computes them   *)
(* as exact rationals <<numerator, denominator>>.  All quantities of the   *)
(* model are far below 2^53 and no quotient lies within a float ulp of a   *)
(* rounding boundary, so floats give the same results.                     *)
(*                                                                         *)
(* Exceptions.  A handler returns a record [ok, val, err, by]: ok = TRUE   *)
(* and val the returned ciphertext, or ok = FALSE, err the exception's     *)
(* class and by the function whose body raised it.                         *)
(***************************************************************************)
EXTENDS Integers, Sequences, FiniteSets, TLC

\* ------------------------------------------------------------- bounds

\* iterations of inverse() and divide() range over 0..MaxIter
MaxIter == 2
\* cipher_list of the statistics functions has at most MaxSeqLen elements
MaxSeqLen == 2
\* strings handed in from outside have at most MaxExtLen characters
MaxExtLen == 4

\* noise_bound of the engines modelled (the constructor's default is 10)
NoiseBounds == {0, 1}
\* scale of the engines modelled (the constructor's default is 100000)
Scales == {1, 8}
\* byte_length of the engines modelled (M = 2^8 = 256)
ByteLengths == {1}
\* A_bits and B_bits of the engines modelled
ABitsSet == {2}
BBitsSet == {2}
\* the plaintexts encrypted, as exact rationals <<numerator, denominator>>
Plaintexts == {<<0, 1>>, <<3, 2>>, <<3, 1>>, <<7, 1>>}
\* the constants handed to scalar_multiply
Scalars == {<<1, 2>>, <<2, 1>>, <<1, 3>>}
\* the characters of strings handed in from outside: a hexadecimal digit, a
\* character that is none, and white space
ExtAlphabet == {"f", "g", " "}

\* ------------------------------------------------------ exact arithmetic

Abs(n) == IF n < 0 THEN -n ELSE n

RECURSIVE Pow2(_)
Pow2(n) == IF n = 0 THEN 1 ELSE 2 * Pow2(n - 1)

\* int(n / d) for d > 0: Python's int() truncates towards zero
TruncDiv(n, d) == IF n >= 0 THEN n \div d ELSE -((-n) \div d)

\* round(n / d) for d > 0: Python's round() rounds half to even
RoundHalfEven(n, d) ==
    LET q == n \div d
        r == n - q * d
    IN  IF 2 * r < d THEN q
        ELSE IF 2 * r > d THEN q + 1
        ELSE IF q % 2 = 0 THEN q ELSE q + 1

\* (a * b) % m, computed on the residues so that no intermediate product
\* leaves TLC's integers; the value is that of Python's (a * b) % m
MulMod(a, b, m) == ((a % m) * (b % m)) % m

\* pow(b, -1, m): the inverse of b modulo m (b odd, m a power of two)
ModInverse(b, m) == CHOOSE v \in 0..(m - 1) : (b * v) % m = 1

\* random.getrandbits(k): any integer of k bits
Getrandbits(k) == 0..(Pow2(k) - 1)

\* v | 1
OrOne(v) == IF v % 2 = 0 THEN v + 1 ELSE v

\* ----------------------------------------------------------------- state

VARIABLES
    scale, noise_bound, byte_length, M, A, B, B_inv,  \* the engine (self)
    x, y,       \* the caller's two ciphertext tokens
    res,        \* the outcome of the last call
    inv         \* the frame of a running inverse() / divide()

key == <<scale, noise_bound, byte_length, M, A, B, B_inv>>
vars == <<scale, noise_bound, byte_length, M, A, B, B_inv, x, y, res, inv>>

\* ------------------------------------------------------------- the codec

HexDigits == <<"0", "1", "2", "3", "4", "5", "6", "7",
               "8", "9", "a", "b", "c", "d", "e", "f">>
UpperHex == <<"A", "B", "C", "D", "E", "F">>

IsHexChar(ch) ==
    \/ \E i \in 1..16 : HexDigits[i] = ch
    \/ \E i \in 1..6 : UpperHex[i] = ch

HexVal(ch) ==
    IF \E i \in 1..16 : HexDigits[i] = ch
    THEN (CHOOSE i \in 1..16 : HexDigits[i] = ch) - 1
    ELSE (CHOOSE i \in 1..6 : UpperHex[i] = ch) + 9

IsSpaceChar(ch) == ch = " "

\* value.to_bytes(n, "big").hex() for 0 <= value < 256^n: 2n digits
RECURSIVE ToHex(_, _)
ToHex(value, ndigits) ==
    IF ndigits = 0 THEN <<>>
    ELSE Append(ToHex(value \div 16, ndigits - 1), HexDigits[(value % 16) + 1])

\* bytes.fromhex accepts s: white space is skipped before a byte, and a byte
\* is two adjacent hexadecimal digits; anything else is a ValueError
RECURSIVE FromHexOk(_)
FromHexOk(s) ==
    IF s = <<>> THEN TRUE
    ELSE IF IsSpaceChar(Head(s)) THEN FromHexOk(Tail(s))
    ELSE /\ Len(s) >= 2
         /\ IsHexChar(s[1])
         /\ IsHexChar(s[2])
         /\ FromHexOk(SubSeq(s, 3, Len(s)))

\* int.from_bytes(bytes.fromhex(s), "big", signed=False), acc the bytes read
RECURSIVE FromHexInt(_, _)
FromHexInt(s, acc) ==
    IF s = <<>> THEN acc
    ELSE IF IsSpaceChar(Head(s)) THEN FromHexInt(Tail(s), acc)
    ELSE FromHexInt(SubSeq(s, 3, Len(s)),
                    acc * 256 + HexVal(s[1]) * 16 + HexVal(s[2]))

Ok(c) == [ok |-> TRUE, val |-> c, err |-> "none", by |-> "none"]
Raise(e, f) == [ok |-> FALSE, val |-> <<>>, err |-> e, by |-> f]

\* _encode: to_bytes raises OverflowError unless 0 <= value < M
_encode(value) ==
    IF value < 0 \/ value >= M THEN Raise("OverflowError", "_encode")
    ELSE Ok(ToHex(value, 2 * byte_length))

\* _decode is defined where bytes.fromhex accepts the string
CanDecode(cipher_str) == FromHexOk(cipher_str)
_decode(cipher_str) == FromHexInt(cipher_str, 0)

\* ------------------------------------------------------------- the engine

\* round(., 5) of decrypt keeps this many decimal places
DecimalPlaces == 5

RECURSIVE Pow10(_)
Pow10(n) == IF n = 0 THEN 1 ELSE 10 * Pow10(n - 1)

\* decrypt's result is a multiple of 1 / DecUnit
DecUnit == Pow10(DecimalPlaces)

\* int(m * self.scale) + noise, m the rational <<numerator, denominator>>
BaseVal(m, noise) == TruncDiv(m[1] * scale, m[2]) + noise

\* encrypt, with the value random.randint returned
encrypt(m, noise) ==
    LET base_val == BaseVal(m, noise)
        obf == (base_val * A * B) % M
    IN  _encode(obf)

\* decrypt's base without the multiplication by B_inv
DecryptBaseBlinded(cipher_str) ==
    RoundHalfEven(_decode(cipher_str) % M, A)

\* base_val of decrypt: round(((obf * B_inv) % M) / A)
DecryptBase(cipher_str) ==
    LET obf == _decode(cipher_str)
        val_with_A == MulMod(obf, B_inv, M)
    IN  RoundHalfEven(val_with_A, A)

\* decrypt: round(base_val / scale, 5), in units of 1 / DecUnit
decrypt(cipher_str) ==
    IF ~CanDecode(cipher_str) THEN [ok |-> FALSE, dec |-> 0, err |-> "ValueError", by |-> "_decode"]
    ELSE [ok |-> TRUE, dec |-> RoundHalfEven(DecryptBase(cipher_str) * DecUnit, scale),
          err |-> "none", by |-> "none"]

add(cipher1, cipher2) ==
    IF ~CanDecode(cipher1) \/ ~CanDecode(cipher2) THEN Raise("ValueError", "_decode")
    ELSE LET int1 == _decode(cipher1)
             int2 == _decode(cipher2)
         IN  _encode((int1 + int2) % M)

\* subtract without the reduction modulo M
subtractUnreduced(cipher1, cipher2) ==
    IF ~CanDecode(cipher1) \/ ~CanDecode(cipher2) THEN Raise("ValueError", "_decode")
    ELSE _encode(_decode(cipher1) - _decode(cipher2))

subtract(cipher1, cipher2) ==
    IF ~CanDecode(cipher1) \/ ~CanDecode(cipher2) THEN Raise("ValueError", "_decode")
    ELSE LET int1 == _decode(cipher1)
             int2 == _decode(cipher2)
         IN  _encode((int1 - int2) % M)

\* constant is the rational <<numerator, denominator>>, denominator > 0
scalar_multiply(cipher, constant) ==
    IF ~CanDecode(cipher) THEN Raise("ValueError", "_decode")
    ELSE LET int_val == _decode(cipher)
         IN  _encode(RoundHalfEven(int_val * constant[1], constant[2]) % M)

multiply(cipher1, cipher2) ==
    IF ~CanDecode(cipher1) \/ ~CanDecode(cipher2) THEN Raise("ValueError", "_decode")
    ELSE LET int1 == _decode(cipher1)
             int2 == _decode(cipher2)
             product == MulMod(int1, int2, M)
             corrected == RoundHalfEven(product, A * B * scale)
             new_cipher == (corrected * A * B) % M
         IN  _encode(new_cipher)

\* one pass of inverse's loop body: the next y
InverseBody(cipher, yy, two_enc) ==
    LET cy == multiply(cipher, yy)
    IN  IF ~cy.ok THEN cy
        ELSE LET diff == subtract(two_enc, cy.val)
             IN  IF ~diff.ok THEN diff ELSE multiply(yy, diff.val)

\* inverse's loop from pass i on
RECURSIVE InverseLoop(_, _, _, _, _)
InverseLoop(cipher, yy, two_enc, i, iterations) ==
    IF i >= iterations THEN Ok(yy)
    ELSE LET nxt == InverseBody(cipher, yy, two_enc)
         IN  IF ~nxt.ok THEN nxt
             ELSE InverseLoop(cipher, nxt.val, two_enc, i + 1, iterations)

\* inverse, with the noise of its two encrypt calls
inverse(cipher, iterations, noise1, noise2) ==
    LET y0 == encrypt(<<1, 1>>, noise1)
        two_enc == encrypt(<<2, 1>>, noise2)
    IN  InverseLoop(cipher, y0.val, two_enc.val, 0, iterations)

divide(cipher1, cipher2, iterations, noise1, noise2) ==
    LET inv_cipher2 == inverse(cipher2, iterations, noise1, noise2)
    IN  IF ~inv_cipher2.ok THEN inv_cipher2
        ELSE multiply(cipher1, inv_cipher2.val)

\* encrypted_sum's loop over the rest of cipher_list
RECURSIVE SumLoop(_, _)
SumLoop(total, cipher_list) ==
    IF cipher_list = <<>> THEN Ok(total)
    ELSE LET nxt == add(total, Head(cipher_list))
         IN  IF ~nxt.ok THEN nxt ELSE SumLoop(nxt.val, Tail(cipher_list))

encrypted_sum(cipher_list, noise) ==
    SumLoop(encrypt(<<0, 1>>, noise).val, cipher_list)

\* encrypted_average returning the sum when there is nothing to divide by
encrypted_averageOfNone(cipher_list, noise) ==
    LET total == encrypted_sum(cipher_list, noise)
        n == Len(cipher_list)
    IN  IF ~total.ok \/ n = 0 THEN total
        ELSE scalar_multiply(total.val, <<1, n>>)

\* 1 / n is evaluated in encrypted_average's own body
encrypted_average(cipher_list, noise) ==
    LET total == encrypted_sum(cipher_list, noise)
        n == Len(cipher_list)
    IN  IF ~total.ok THEN total
        ELSE IF n = 0 THEN Raise("ZeroDivisionError", "encrypted_average")
        ELSE scalar_multiply(total.val, <<1, n>>)

\* encrypted_variance's loop over the rest of cipher_list
RECURSIVE SquareSumLoop(_, _)
SquareSumLoop(sum_sq, cipher_list) ==
    IF cipher_list = <<>> THEN Ok(sum_sq)
    ELSE LET c_sq == multiply(Head(cipher_list), Head(cipher_list))
         IN  IF ~c_sq.ok THEN c_sq
             ELSE LET nxt == add(sum_sq, c_sq.val)
                  IN  IF ~nxt.ok THEN nxt
                      ELSE SquareSumLoop(nxt.val, Tail(cipher_list))

encrypted_variance(cipher_list, noise1, noise2) ==
    LET n == Len(cipher_list)
        sum_sq == SquareSumLoop(encrypt(<<0, 1>>, noise1).val, cipher_list)
    IN  IF ~sum_sq.ok THEN sum_sq
        ELSE IF n = 0 THEN Raise("ZeroDivisionError", "encrypted_variance")
        ELSE LET avg_sq == scalar_multiply(sum_sq.val, <<1, n>>)
                 avg == encrypted_average(cipher_list, noise2)
             IN  IF ~avg_sq.ok THEN avg_sq
                 ELSE IF ~avg.ok THEN avg
                 ELSE LET avg_of_sq == multiply(avg.val, avg.val)
                      IN  IF ~avg_of_sq.ok THEN avg_of_sq
                          ELSE subtract(avg_sq.val, avg_of_sq.val)

\* ---------------------------------------------- tokens and their history

\* A token the caller holds: the string c, and what the model remembers of
\* where it came from: the call src that returned it, that call's arguments
\* args (tokens) and parameter k, and
\*   m, noise  the plaintext and the noise of an encrypt call,
\*   base      the base an exact fixed-point engine would hold for it:
\*             base_val for encrypt, and for add, subtract, scalar_multiply
\*             and multiply the operator's base computed from its
\*             arguments' bases (AddBase, ...); 0 for the other calls.
Token(c, src, base, m, noise, k, args) ==
    [c |-> c, src |-> src, base |-> base, m |-> m, noise |-> noise,
     k |-> k, args |-> args]

NoToken == Token(<<>>, "none", 0, <<0, 1>>, 0, <<1, 1>>, <<>>)

\* the outcome of a call: its name, the tokens and the parameter passed, and
\* whether it returned (val a ciphertext, or dec decrypt's number) or raised
Outcome(op, r, base, k, args) ==
    [op |-> op, ok |-> r.ok, val |-> r.val, err |-> r.err, by |-> r.by,
     dec |-> 0, base |-> base, k |-> k, args |-> args]

NoOutcome == Outcome("none", Raise("none", "none"), 0, <<1, 1>>, <<>>)

\* the token the last call returned, if it returned one (what encrypt
\* returned is in the caller's slots)
ResToken == Token(res.val, res.op, res.base, <<0, 1>>, 0, res.k, res.args)

HasResToken == res.ok /\ res.op \notin {"none", "encrypt", "decrypt"}

\* the tokens the caller can hand to decrypt
Held == {t \in {x, y} : t # NoToken} \cup (IF HasResToken THEN {ResToken} ELSE {})

Strings(ts) == [i \in 1..Len(ts) |-> ts[i].c]

\* the operators on bases: what an exact fixed-point engine computes
AddBase(b1, b2) == b1 + b2
SubtractBase(b1, b2) == b1 - b2
ScalarBase(b, k) == RoundHalfEven(b * k[1], k[2])
MultiplyBase(b1, b2) == RoundHalfEven(b1 * b2, scale)

\* ------------------------------------------------------------------ Init

Noises == (-noise_bound)..noise_bound

\* the frame of a running inverse(): the argument cipher, the locals y,
\* two_enc and i, and iterations; for the model's use the y of the pass
\* before (yprev)
Frame(pc, cipher, yy, two_enc, i, iterations, yprev) ==
    [pc |-> pc, cipher |-> cipher, y |-> yy, two_enc |-> two_enc,
     i |-> i, iterations |-> iterations, yprev |-> yprev]

Idle == Frame("idle", NoToken, <<>>, <<>>, 0, 0, <<>>)

\* __init__
Init ==
    /\ scale \in Scales
    /\ noise_bound \in NoiseBounds
    /\ byte_length \in ByteLengths
    /\ M = Pow2(8 * byte_length)
    /\ \E A_bits \in ABitsSet : A \in {OrOne(r) : r \in Getrandbits(A_bits)}
    /\ \E B_bits \in BBitsSet : B \in {OrOne(r) : r \in Getrandbits(B_bits)}
    /\ B_inv = ModInverse(B, M)
    /\ x = NoToken
    /\ y = NoToken
    /\ res = NoOutcome
    /\ inv = Idle

\* --------------------------------------------------------------- actions

\* No handler changes self, so a call's outcome depends on its arguments
\* alone: the caller makes one call on the tokens it holds (Ready) and may
\* then decrypt what the call returned.
Ready == inv.pc = "idle" /\ res.op \in {"none", "encrypt"}

\* the caller keeps a new token in its first free slot
Keep(t) ==
    IF x = NoToken THEN x' = t /\ y' = y ELSE x' = x /\ y' = t

HasFreeSlot == x = NoToken \/ y = NoToken

\* encrypt(m)
Encrypt(m, noise) ==
    /\ Ready
    /\ HasFreeSlot
    /\ LET r == encrypt(m, noise)
           b == BaseVal(m, noise)
       IN  /\ Keep(Token(r.val, "encrypt", b, m, noise, <<1, 1>>, <<>>))
           /\ res' = Outcome("encrypt", r, b, <<1, 1>>, <<>>)
    /\ UNCHANGED <<key, inv>>

\* the strings that can reach the caller from outside the engine
ExtStrings == UNION {[1..n -> ExtAlphabet] : n \in 0..MaxExtLen}

\* the caller is handed a string from outside and keeps it as a token
Receive(s) ==
    /\ Ready
    /\ HasFreeSlot
    /\ x.src # "external"
    /\ Keep(Token(s, "external", 0, <<0, 1>>, 0, <<1, 1>>, <<>>))
    /\ res' = NoOutcome
    /\ UNCHANGED <<key, inv>>

\* decrypt(cipher_str)
Decrypt(t) ==
    /\ inv.pc = "idle"
    /\ res.op # "decrypt"
    /\ LET r == decrypt(t.c)
       IN  res' = [op |-> "decrypt", ok |-> r.ok, val |-> <<>>, err |-> r.err,
                   by |-> r.by, dec |-> r.dec, base |-> t.base,
                   k |-> <<1, 1>>, args |-> <<t>>]
    /\ UNCHANGED <<key, x, y, inv>>

\* add(cipher1, cipher2)
Add(t1, t2) ==
    /\ Ready
    /\ res' = Outcome("add", add(t1.c, t2.c), AddBase(t1.base, t2.base),
                      <<1, 1>>, <<t1, t2>>)
    /\ UNCHANGED <<key, x, y, inv>>

\* subtract(cipher1, cipher2)
Subtract(t1, t2) ==
    /\ Ready
    /\ res' = Outcome("subtract", subtract(t1.c, t2.c),
                      SubtractBase(t1.base, t2.base), <<1, 1>>, <<t1, t2>>)
    /\ UNCHANGED <<key, x, y, inv>>

\* scalar_multiply(cipher, constant)
ScalarMultiply(t, k) ==
    /\ Ready
    /\ res' = Outcome("scalar_multiply", scalar_multiply(t.c, k),
                      ScalarBase(t.base, k), k, <<t>>)
    /\ UNCHANGED <<key, x, y, inv>>

\* multiply(cipher1, cipher2)
Multiply(t1, t2) ==
    /\ Ready
    /\ res' = Outcome("multiply", multiply(t1.c, t2.c),
                      MultiplyBase(t1.base, t2.base), <<1, 1>>, <<t1, t2>>)
    /\ UNCHANGED <<key, x, y, inv>>

\* inverse(cipher, iterations): the two encrypt calls before the loop
InverseCall(t, iterations, noise1, noise2) ==
    /\ Ready
    /\ inv' = Frame("loop", t, encrypt(<<1, 1>>, noise1).val,
                    encrypt(<<2, 1>>, noise2).val, 0, iterations, <<>>)
    /\ res' = NoOutcome
    /\ UNCHANGED <<key, x, y>>

\* divide(cipher1, cipher2, iterations)
Divide(t1, t2, iterations, noise1, noise2) ==
    /\ Ready
    /\ res' = Outcome("divide", divide(t1.c, t2.c, iterations, noise1, noise2),
                      0, <<iterations, 1>>, <<t1, t2>>)
    /\ UNCHANGED <<key, x, y, inv>>

\* what inverse() returns or raises, r its outcome
FrameOutcome(r) ==
    Outcome("inverse", r, 0, <<inv.iterations, 1>>, <<inv.cipher>>)

\* one pass of the loop: cy, diff and the new y; an exception ends the call
InverseStep ==
    /\ inv.pc = "loop"
    /\ inv.i < inv.iterations
    /\ LET nxt == InverseBody(inv.cipher.c, inv.y, inv.two_enc)
       IN  IF nxt.ok
           THEN /\ inv' = [inv EXCEPT !.y = nxt.val, !.yprev = inv.y,
                                !.i = inv.i + 1]
                /\ UNCHANGED res
           ELSE /\ inv' = Idle
                /\ res' = FrameOutcome(nxt)
    /\ UNCHANGED <<key, x, y>>

\* the loop is over: return y
InverseReturn ==
    /\ inv.pc = "loop"
    /\ inv.i >= inv.iterations
    /\ inv' = Idle
    /\ res' = FrameOutcome(Ok(inv.y))
    /\ UNCHANGED <<key, x, y>>

\* encrypted_sum(cipher_list)
EncryptedSum(ts, noise) ==
    /\ Ready
    /\ res' = Outcome("encrypted_sum", encrypted_sum(Strings(ts), noise),
                      0, <<noise, 1>>, ts)
    /\ UNCHANGED <<key, x, y, inv>>

\* encrypted_average(cipher_list)
EncryptedAverage(ts, noise) ==
    /\ Ready
    /\ res' = Outcome("encrypted_average", encrypted_average(Strings(ts), noise),
                      0, <<noise, 1>>, ts)
    /\ UNCHANGED <<key, x, y, inv>>

\* encrypted_variance(cipher_list)
EncryptedVariance(ts, noise1, noise2) ==
    /\ Ready
    /\ res' = Outcome("encrypted_variance",
                      encrypted_variance(Strings(ts), noise1, noise2),
                      0, <<noise1, 1>>, ts)
    /\ UNCHANGED <<key, x, y, inv>>

\* The caller's slots are interchangeable and Encrypt fills them with every
\* token and every pair of tokens: a call on one token is made by a caller
\* holding one (x), a call on two by a caller holding two (x, y), and a
\* list is x, y, x, ... cut to its length.
One == x # NoToken /\ y = NoToken
Both == x # NoToken /\ y # NoToken

CallerList(n) == [i \in 1..n |-> IF i % 2 = 1 THEN x ELSE y]

ListLengths ==
    IF x = NoToken THEN {0}
    ELSE IF y = NoToken THEN {1}
    ELSE 2..MaxSeqLen

CallerLists == {CallerList(n) : n \in ListLengths}

Next ==
    \/ \E m \in Plaintexts, noise \in Noises : Encrypt(m, noise)
    \/ \E t \in Held : Decrypt(t)
    \/ Both /\ Add(x, y)
    \/ Both /\ Subtract(x, y)
    \/ One /\ \E k \in Scalars : ScalarMultiply(x, k)
    \/ Both /\ Multiply(x, y)
    \/ One /\ \E n \in 0..MaxIter, noise1, noise2 \in Noises :
          InverseCall(x, n, noise1, noise2)
    \/ InverseStep
    \/ InverseReturn
    \/ Both /\ \E n \in 0..MaxIter, noise1, noise2 \in Noises :
          Divide(x, y, n, noise1, noise2)
    \/ \E ts \in CallerLists, noise \in Noises : EncryptedSum(ts, noise)
    \/ \E ts \in CallerLists, noise \in Noises : EncryptedAverage(ts, noise)
    \/ \E ts \in CallerLists, noise1, noise2 \in Noises :
          EncryptedVariance(ts, noise1, noise2)

Spec == Init /\ [][Next]_vars

\* the handlers that decode their arguments, on strings from outside too
NextWire ==
    \/ \E m \in Plaintexts, noise \in Noises : Encrypt(m, noise)
    \/ \E s \in ExtStrings : Receive(s)
    \/ \E t \in Held : Decrypt(t)
    \/ Both /\ Add(x, y)
    \/ Both /\ Subtract(x, y)
    \/ One /\ \E k \in Scalars : ScalarMultiply(x, k)
    \/ Both /\ Multiply(x, y)

SpecWire == Init /\ [][NextWire]_vars

\* ---------------------------------------------------------------- claims

\* arithmetic on the plaintexts <<numerator, denominator>>
RatAdd(p, q) == <<p[1] * q[2] + q[1] * p[2], p[2] * q[2]>>
RatSub(p, q) == <<p[1] * q[2] - q[1] * p[2], p[2] * q[2]>>

RECURSIVE RatSum(_)
RatSum(ts) == IF ts = <<>> THEN <<0, 1>> ELSE RatAdd(Head(ts).m, RatSum(Tail(ts)))

RatMean(ts) == <<RatSum(ts)[1], RatSum(ts)[2] * Len(ts)>>

\* |dec / DecUnit - r| <= k / scale + 1 / DecUnit, dec a result of decrypt
\* and r a rational
Within(dec, r, k) ==
    Abs(dec * r[2] - r[1] * DecUnit) * scale <= (k * DecUnit + scale) * r[2]

\* base * A is recovered unchanged from its residue modulo M
NoWrap(base) == (base * A) % M = base * A

\* the canonical ciphertext of a base
Canon(base) == ToHex((base * A * B) % M, 2 * byte_length)

\* every argument of the last call was returned by encrypt
OfEncrypted(args) == \A i \in 1..Len(args) : args[i].src = "encrypt"

\* the last call was decrypt, on what op returned for encrypted arguments
DecryptedOf(op) ==
    /\ res.op = "decrypt"
    /\ res.ok
    /\ res.args[1].src = op
    /\ OfEncrypted(res.args[1].args)

\* C1, as the specification states it: when base * A does not wrap modulo M,
\* decrypt(encrypt(m)) differs from m by at most noise_bound / scale + 10^-5.
C1_RoundTripStated ==
    (DecryptedOf("encrypt") /\ NoWrap(res.args[1].base))
        => Within(res.dec, res.args[1].m, noise_bound)

\* C1, amended: when base * A does not wrap modulo M, decrypt(encrypt(m))
\* differs from m by at most (noise_bound + 1) / scale + 10^-5; the one more
\* unit of 1 / scale is the fraction of m * scale that int() cuts off.
C1_RoundTrip ==
    (DecryptedOf("encrypt") /\ NoWrap(res.args[1].base))
        => Within(res.dec, res.args[1].m, noise_bound + 1)

\* a round trip without wraparound whose error is above the stated bound
C1_Witness ==
    /\ DecryptedOf("encrypt")
    /\ NoWrap(res.args[1].base)
    /\ res.args[1].noise = -noise_bound
    /\ ~Within(res.dec, res.args[1].m, noise_bound)

\* C2: for ciphertexts c1, c2 of plaintexts whose product fits the modulus,
\* decrypt(multiply(c1, c2)) is the de-scaled product of the two bases,
\* round(base1 * base2 / scale) / scale, whatever A * B is.
C2_Multiplicative ==
    (DecryptedOf("multiply") /\ NoWrap(res.args[1].base))
        => res.dec = RoundHalfEven(res.args[1].base * DecUnit, scale)

\* C3: the output of add, subtract, scalar_multiply and multiply on
\* canonical inputs is the canonical ciphertext of the expected base
\* (base1 + base2, base1 - base2, round(base * k), round(base1 * base2 /
\* scale)), within a rounding tolerance of one unit.
C3_CanonicalClosure ==
    (/\ res.op \in {"add", "subtract", "scalar_multiply", "multiply"}
     /\ res.ok
     /\ OfEncrypted(res.args))
        => \E b \in (res.base - 1)..(res.base + 1) : res.val = Canon(b)

\* C4: add(c1, c2) is the canonical ciphertext of base1 + base2, and
\* decrypt of it differs from m1 + m2 by at most the noise of the two
\* encryptions, 2 * noise_bound / scale, plus the slack of their two
\* truncations and of decrypt's rounding.
C4_Additive ==
    DecryptedOf("add")
        => LET t == res.args[1]
           IN  /\ t.c = Canon(t.args[1].base + t.args[2].base)
               /\ Within(res.dec, RatAdd(t.args[1].m, t.args[2].m),
                         2 * noise_bound + 2)

\* the reciprocal of a plaintext, and the plaintexts of [1, 2]
RatInv(m) == <<m[2], m[1]>>
InConvergenceRange(m) == m[2] <= m[1] /\ m[1] <= 2 * m[2]

\* |decrypt(c) - 1 / m|, in units of 1 / (m[1] * DecUnit)
ReciprocalError(c, m) == Abs(decrypt(c).dec * m[1] - m[2] * DecUnit)

\* C5: inverse(c, N) on c = encrypt(m), m in [1, 2], starts at y = encrypt(1.0)
\* and makes at most N passes, and from one pass to the next the error
\* |decrypt(y) - 1 / m| does not increase unless it stays at the noise floor.
\* Stated for the engines that add no noise, whose noise floor is the
\* 10^-5 of decrypt's rounding.
C5_ReciprocalConvergence ==
    (/\ inv.pc = "loop"
     /\ inv.cipher.src = "encrypt"
     /\ InConvergenceRange(inv.cipher.m)
     /\ noise_bound = 0)
        => /\ inv.i <= inv.iterations
           /\ inv.i = 0 => inv.y = Canon(BaseVal(<<1, 1>>, 0))
           /\ inv.i >= 1 =>
                 \/ ReciprocalError(inv.y, inv.cipher.m)
                        <= ReciprocalError(inv.yprev, inv.cipher.m)
                 \/ Within(decrypt(inv.y).dec, RatInv(inv.cipher.m), noise_bound)

\* the base of encrypted_sum's result: the noise of its encrypt(0.0) and the
\* bases of the list
RECURSIVE SumOfBases(_, _)
SumOfBases(total, ts) ==
    IF ts = <<>> THEN total ELSE SumOfBases(total + Head(ts).base, Tail(ts))

\* C6: encrypted_average of a non-empty list of ciphertexts, the base of
\* whose sum does not wrap modulo M, decrypts to the arithmetic mean of
\* their plaintexts within noise tolerance.
C6_Average ==
    (/\ DecryptedOf("encrypted_average")
     /\ res.args[1].args # <<>>
     /\ NoWrap(SumOfBases(res.args[1].k[1], res.args[1].args)))
        => Within(res.dec, RatMean(res.args[1].args), 2 * noise_bound + 2)

\* C7: subtract(c1, c2) is the canonical ciphertext of base1 - base2, and
\* decrypt of it differs from m1 - m2 by at most the noise of the two
\* encryptions plus rounding slack, also when m1 < m2.
C7_Subtractive ==
    DecryptedOf("subtract")
        => LET t == res.args[1]
           IN  /\ t.c = Canon(t.args[1].base - t.args[2].base)
               /\ Within(res.dec, RatSub(t.args[1].m, t.args[2].m),
                         2 * noise_bound + 2)

\* the wire format: 2 * byte_length lower-case hexadecimal digits, the value
\* an unsigned integer below M
WireFormat(c) ==
    /\ Len(c) = 2 * byte_length
    /\ \A i \in 1..Len(c) : \E d \in 1..16 : HexDigits[d] = c[i]
    /\ _decode(c) \in 0..(M - 1)

\* the ciphertexts the engine has returned: to the caller, and to a running
\* inverse()
Returned ==
    {t.c : t \in {h \in Held : h.src # "external"}}
        \cup (IF inv.pc = "loop" THEN {inv.y, inv.two_enc} ELSE {})

\* the engine as __init__ left it, before any call; byte_length and M, all
\* that _encode and _decode read of it, are the same in every later state
Fresh == x = NoToken /\ res = NoOutcome /\ inv = Idle

\* C8: every ciphertext returned by encrypt, add, subtract, scalar_multiply,
\* multiply, inverse, divide, encrypted_sum, encrypted_average and
\* encrypted_variance has the wire format; _encode is never reached with a
\* value outside [0, M); and _decode(_encode(v)) = v for every v in [0, M).
C8_WireFormat ==
    /\ \A c \in Returned : WireFormat(c) /\ _encode(_decode(c)) = Ok(c)
    /\ res.err # "OverflowError"
    /\ Fresh => \A v \in 0..(M - 1) :
                   /\ _encode(v).ok
                   /\ WireFormat(_encode(v).val)
                   /\ _decode(_encode(v).val) = v

\* divide has run the most iterations and returned a ciphertext
C8_Witness ==
    /\ res.op = "divide"
    /\ res.ok
    /\ res.k[1] = MaxIter
    /\ inv.pc = "idle"

\* a string of the wrong length, or with a character that is no hex digit
Malformed(c) ==
    Len(c) # 2 * byte_length \/ \E i \in 1..Len(c) : ~IsHexChar(c[i])

\* C9: decrypt, add, subtract, scalar_multiply and multiply reject with a
\* format error every string whose length is not 2 * byte_length or that
\* holds a character that is no hexadecimal digit.
C9_Rejects ==
    (/\ res.op \in {"decrypt", "add", "subtract", "scalar_multiply", "multiply"}
     /\ \E i \in 1..Len(res.args) : Malformed(res.args[i].c))
        => (~res.ok /\ res.err = "ValueError")

\* C10: encrypted_average of the empty list raises, in its own body, and
\* returns no ciphertext, and the call leaves the key material unchanged.
C10_EmptyInput ==
    [][(res'.op = "encrypted_average" /\ res'.args = <<>>)
          => (/\ ~res'.ok
              /\ res'.val = <<>>
              /\ res'.err = "ZeroDivisionError"
              /\ res'.by = "encrypted_average"
              /\ key' = key)]_vars

\* encrypted_average of the empty list has raised
C10_Witness ==
    /\ res.op = "encrypted_average"
    /\ res.args = <<>>
    /\ ~res.ok

====
